---------------------------- MODULE Spec2Model ----------------------------
(***************************************************************************)
(* A model of AirportGuesser (src/airport_guesser.py): the reduction of a  *)
(* table of position samples to per-flight first/last endpoints            *)
(* (preprocess) and the greedy, priority-ordered assignment of endpoints   *)
(* to airports and fixes within a radius (assign).                         *)
(*                                                                         *)
(* A pandas DataFrame is a record [columns, rows]: the ordered column      *)
(* names and the ordered rows, each row a function from column name to     *)
(* cell.  Latitudes and longitudes are integers in tenths of a degree,     *)
(* distances are integers in metres (rounded up), radii are integers in    *)
(* kilometres.  A missing cell is NaN in an object column and NaNf in a    *)
(* float column.                                                           *)
(***************************************************************************)
EXTENDS Integers, Sequences, FiniteSets, TLC

VARIABLES
    df_airport,                   \* self.df_airport
    df_fixes,                     \* self.df_fixes
    is_to_guess_fixes,            \* self.is_to_guess_fixes
    target_airports,              \* self.target_airports
    df_all_trk,                   \* self.df_all_trk
    df_trk_departed,              \* self.df_trk_departed
    df_trk_landed,                \* self.df_trk_landed
    df_trk_in_the_air_at_first,   \* self.df_trk_in_the_air_at_first
    df_trk_in_the_air_at_last,    \* self.df_trk_in_the_air_at_last
    df_guess,                     \* self.df_guess
    pc,                           \* the position of the caller / of assign
    icao_i,                       \* index of the running loop of assign
    radius_km,                    \* the argument of the last assign call
    calls,                        \* assign calls begun since preprocess
    returned,                     \* the last call and what it returned
    csv,                          \* the file to_csv wrote last
    steps                         \* the calls of the interface made so far

vars == <<df_airport, df_fixes, is_to_guess_fixes, target_airports, df_all_trk,
          df_trk_departed, df_trk_landed, df_trk_in_the_air_at_first,
          df_trk_in_the_air_at_last, df_guess, pc, icao_i, radius_km, calls, returned, csv,
          steps>>

(***************************************************************************)
(* Bounds of the model.                                                    *)
(***************************************************************************)
MaxSamples == 2
MaxAssignCalls == 2
MaxCalls == 4

(***************************************************************************)
(* Cells.                                                                  *)
(***************************************************************************)
NaN == "NaN"
NaNf == -1

FloatColumns ==
    {"time", "Latitude", "Longitude", "Altitude",
     "Distance_to_EntryPoint", "Distance_to_ExitPoint",
     "Distance_to_Airport", "Distance_to_Airport_temp",
     "Distance_to_Airport_DEP", "Distance_to_Airport_ARR"}

isna(col, v) == IF col \in FloatColumns THEN v = NaNf ELSE v = NaN

\* Python's order on the strings of the model: the position in these lists.
CallsignOrder == <<"ANA002", "JAL001">>
DateOrder == <<"20190816", "20190817">>

Rank(order, s) == CHOOSE i \in 1..Len(order) : order[i] = s

(***************************************************************************)
(* DataFrames.                                                             *)
(***************************************************************************)
DataFrame(cols, rws) == [columns |-> cols, rows |-> rws]

EmptyDataFrame == DataFrame(<<>>, <<>>)

empty(df) == Len(df.columns) = 0 \/ Len(df.rows) = 0

Range(s) == {s[i] : i \in 1..Len(s)}

HasColumn(df, c) == c \in Range(df.columns)

\* df[c] = v for a whole column: an existing column is overwritten in place,
\* a new one is appended.
SetCell(row, c, v) == [k \in DOMAIN row \cup {c} |-> IF k = c THEN v ELSE row[k]]

SetColumn(df, c, v) ==
    DataFrame(IF HasColumn(df, c) THEN df.columns ELSE Append(df.columns, c),
              [i \in 1..Len(df.rows) |-> SetCell(df.rows[i], c, v)])

\* df[cols]: the projection of a row on a list of columns.
Project(row, cols) == [k \in Range(cols) |-> row[k]]

\* A row over the columns cols, a cell it lacks being missing.
Reindex(row, cols) ==
    [k \in Range(cols) |->
        IF k \in DOMAIN row THEN row[k]
        ELSE IF k \in FloatColumns THEN NaNf ELSE NaN]

\* pd.concat([a, b], ignore_index=True) of two frames.
Concat(a, b) ==
    LET cols == a.columns \o SelectSeq(b.columns, LAMBDA c : ~HasColumn(a, c))
        all == a.rows \o b.rows
    IN  DataFrame(cols, [i \in 1..Len(all) |-> Reindex(all[i], cols)])

(***************************************************************************)
(* preprocess: sort by (Callsign, time), one first and one last row per    *)
(* Callsign, the split by altitude.                                        *)
(***************************************************************************)
AltitudeThreshold == 6000

\* The order of sort_values(by=['Callsign','time']).
KeyLess(a, b) ==
    \/ Rank(CallsignOrder, a.Callsign) < Rank(CallsignOrder, b.Callsign)
    \/ a.Callsign = b.Callsign /\ a.time < b.time

\* A row put into a sorted list behind every row that is not greater: rows
\* with equal keys keep their input order (the sort is stable).
RECURSIVE InsertRow(_, _)
InsertRow(row, sorted) ==
    IF sorted = <<>> THEN <<row>>
    ELSE IF KeyLess(row, Head(sorted)) THEN <<row>> \o sorted
    ELSE <<Head(sorted)>> \o InsertRow(row, Tail(sorted))

RECURSIVE SortRows(_)
SortRows(rws) ==
    IF rws = <<>> THEN <<>>
    ELSE InsertRow(rws[Len(rws)], SortRows(SubSeq(rws, 1, Len(rws) - 1)))

sort_values(df) == DataFrame(df.columns, SortRows(df.rows))

\* The keys of groupby('Callsign'), in sorted order.
GroupKeys(df) ==
    SelectSeq(CallsignOrder, LAMBDA c : \E i \in 1..Len(df.rows) : df.rows[i].Callsign = c)

Group(df, key) == SelectSeq(df.rows, LAMBDA r : r.Callsign = key)

\* The columns of groupby('Callsign', as_index=False): the key comes first.
GroupColumns(df) == <<"Callsign">> \o SelectSeq(df.columns, LAMBDA c : c # "Callsign")

\* GroupBy.first() / GroupBy.last() of one column of one group: the first /
\* last cell that is not missing, and a missing cell if there is none.
FirstCell(group, col) ==
    LET present == SelectSeq(group, LAMBDA r : ~isna(col, r[col]))
    IN  IF present = <<>> THEN group[1][col] ELSE present[1][col]

LastCell(group, col) ==
    LET present == SelectSeq(group, LAMBDA r : ~isna(col, r[col]))
    IN  IF present = <<>> THEN group[1][col] ELSE present[Len(present)][col]

groupby_first(df) ==
    LET keys == GroupKeys(df)
        cols == GroupColumns(df)
    IN  DataFrame(cols,
            [i \in 1..Len(keys) |->
                [c \in Range(cols) |-> FirstCell(Group(df, keys[i]), c)]])

groupby_last(df) ==
    LET keys == GroupKeys(df)
        cols == GroupColumns(df)
    IN  DataFrame(cols,
            [i \in 1..Len(keys) |->
                [c \in Range(cols) |-> LastCell(Group(df, keys[i]), c)]])

\* Grounded with the threshold itself left out.
GroundedBelow(df) ==
    DataFrame(df.columns,
              SelectSeq(df.rows, LAMBDA r : r.Altitude # NaNf /\ r.Altitude < AltitudeThreshold))

\* first[first['Altitude'] <= 6000]
Grounded(df) ==
    DataFrame(df.columns,
              SelectSeq(df.rows, LAMBDA r : r.Altitude # NaNf /\ r.Altitude <= AltitudeThreshold))

\* first[~first['Callsign'].isin(departed['Callsign'] ++ landed['Callsign'])]
InTheAir(df, departed, landed) ==
    DataFrame(df.columns,
              SelectSeq(df.rows, LAMBDA r :
                  /\ \A i \in 1..Len(departed.rows) : departed.rows[i].Callsign # r.Callsign
                  /\ \A i \in 1..Len(landed.rows) : landed.rows[i].Callsign # r.Callsign))

InitEntry(df) == SetColumn(SetColumn(df, "EntryPoint", NaN), "Distance_to_EntryPoint", NaNf)

InitExit(df) == SetColumn(SetColumn(df, "ExitPoint", NaN), "Distance_to_ExitPoint", NaNf)

\* The endpoint tables preprocess leaves: the grounded first and last rows,
\* and, with fixes, the first and last rows of the flights grounded at
\* neither end (without fixes the two tables t holds are kept).
PreprocessTables(df, with_fixes, t) ==
    LET sorted == sort_values(df)
        first == groupby_first(sorted)
        last == groupby_last(sorted)
        departed == Grounded(first)
        landed == Grounded(last)
    IN  [departed |-> InitEntry(departed),
         landed |-> InitExit(landed),
         in_the_air_at_first |->
            IF with_fixes THEN InitEntry(InTheAir(first, departed, landed))
            ELSE t.in_the_air_at_first,
         in_the_air_at_last |->
            IF with_fixes THEN InitExit(InTheAir(last, departed, landed))
            ELSE t.in_the_air_at_last]

(***************************************************************************)
(* assign: the distance and the claim of the unassigned rows in radius.    *)
(***************************************************************************)
\* 111.32 km per degree: metres per tenth of a degree.
MetresPerTenthDegree == 11132

\* The least k in lo..hi with k * k >= n.
RECURSIVE SqrtSearch(_, _, _)
SqrtSearch(n, lo, hi) ==
    IF lo >= hi THEN lo
    ELSE LET mid == (lo + hi) \div 2
         IN  IF mid * mid >= n THEN SqrtSearch(n, lo, mid)
             ELSE SqrtSearch(n, mid + 1, hi)

SqrtCeil(n) == SqrtSearch(n, 0, 46340)

\* Distance with the longitude term left out.
DistanceLatOnly(row, lat, lon) ==
    LET dlat == row.Latitude - lat
    IN  SqrtCeil((dlat * dlat) * MetresPerTenthDegree * MetresPerTenthDegree)

\* np.sqrt((Latitude - lat)**2 + (Longitude - lon)**2) * 111.32, in metres.
Distance(row, lat, lon) ==
    LET dlat == row.Latitude - lat
        dlon == row.Longitude - lon
    IN  SqrtCeil((dlat * dlat + dlon * dlon) * MetresPerTenthDegree * MetresPerTenthDegree)

\* WithinRadius with the comparison turned round.
WithinRadiusReversed(d, r) == d >= r * 1000

\* d <= radius_km
WithinRadius(d, r) == d <= r * 1000

\* AssignWithin that lets a closer location take a row over.
AssignNearest(df, point, dist, name, lat, lon, r) ==
    DataFrame(df.columns,
        [i \in 1..Len(df.rows) |->
            LET row == df.rows[i]
                d == Distance(row, lat, lon)
            IN  IF (isna(point, row[point]) \/ d < row[dist]) /\ WithinRadius(d, r)
                THEN [row EXCEPT ![point] = name, ![dist] = d]
                ELSE row])

\* AssignWithin without the mask of the rows still missing a point.
AssignOverwrite(df, point, dist, name, lat, lon, r) ==
    DataFrame(df.columns,
        [i \in 1..Len(df.rows) |->
            LET row == df.rows[i]
                d == Distance(row, lat, lon)
            IN  IF WithinRadius(d, r)
                THEN [row EXCEPT ![point] = name, ![dist] = d]
                ELSE row])

\* AssignWithin that assigns only the first of the rows in radius.
AssignFirstOnly(df, point, dist, name, lat, lon, r) ==
    LET hit(i) == /\ isna(point, df.rows[i][point])
                  /\ WithinRadius(Distance(df.rows[i], lat, lon), r)
    IN  DataFrame(df.columns,
            [i \in 1..Len(df.rows) |->
                IF hit(i) /\ \A j \in 1..(i - 1) : ~hit(j)
                THEN [df.rows[i] EXCEPT ![point] = name,
                                        ![dist] = Distance(df.rows[i], lat, lon)]
                ELSE df.rows[i]])

\* One location tried on one table: every row whose point is still missing
\* and whose distance is within the radius gets the name and the distance.
AssignWithin(df, point, dist, name, lat, lon, r) ==
    DataFrame(df.columns,
        [i \in 1..Len(df.rows) |->
            LET row == df.rows[i]
                d == Distance(row, lat, lon)
            IN  IF isna(point, row[point]) /\ WithinRadius(d, r)
                THEN [row EXCEPT ![point] = name, ![dist] = d]
                ELSE row])

\* The four endpoint tables assign works on.
Tables(dep, land, first, last) ==
    [departed |-> dep, landed |-> land, in_the_air_at_first |-> first, in_the_air_at_last |-> last]

\* df_airport[df_airport['ICAO'] == icao]
AirportRows(airports, icao) == SelectSeq(airports.rows, LAMBDA a : a.ICAO = icao)

\* One iteration of the loop over target_airports.
AirportIteration(t, airports, icao, r) ==
    LET row == AirportRows(airports, icao)
    IN  IF row = <<>> THEN t
        ELSE LET lat == row[1].Latitude_decimal
                 lon == row[1].Longitude_decimal
             IN  [t EXCEPT
                    !.departed = AssignWithin(@, "EntryPoint", "Distance_to_EntryPoint", icao, lat, lon, r),
                    !.landed = AssignWithin(@, "ExitPoint", "Distance_to_ExitPoint", icao, lat, lon, r)]

\* One iteration of the loop over df_fixes.
FixIteration(t, fix_row, r) ==
    LET name == fix_row.Name
        lat == fix_row.Latitude_decimal
        lon == fix_row.Longitude_decimal
    IN  [t EXCEPT
           !.in_the_air_at_first = AssignWithin(@, "EntryPoint", "Distance_to_EntryPoint", name, lat, lon, r),
           !.in_the_air_at_last = AssignWithin(@, "ExitPoint", "Distance_to_ExitPoint", name, lat, lon, r)]

\* The rows fixes were tried on are appended to departed and landed.
ConcatInTheAir(t) ==
    [t EXCEPT !.departed = Concat(@, t.in_the_air_at_first),
              !.landed = Concat(@, t.in_the_air_at_last)]

(***************************************************************************)
(* pd.merge(departed[...], landed[...], on=['date','Callsign'],            *)
(* how='outer'): one row per pair of rows with equal keys, the rows of     *)
(* one side alone kept with the other side's cells missing, keys sorted.   *)
(***************************************************************************)
EntryColumns == <<"date", "Callsign", "EntryPoint", "Distance_to_EntryPoint">>
ExitColumns == <<"date", "Callsign", "ExitPoint", "Distance_to_ExitPoint">>
GuessColumns == <<"date", "Callsign", "EntryPoint", "Distance_to_EntryPoint",
                  "ExitPoint", "Distance_to_ExitPoint">>

\* The keys in their sorted order; a missing date is a key of its own and
\* comes last.
DateKeys == DateOrder \o <<NaN>>

MergeKeys ==
    [i \in 1..(Len(DateKeys) * Len(CallsignOrder)) |->
        [date |-> DateKeys[((i - 1) \div Len(CallsignOrder)) + 1],
         Callsign |-> CallsignOrder[((i - 1) % Len(CallsignOrder)) + 1]]]

SameKey(row, key) == row.date = key.date /\ row.Callsign = key.Callsign

\* The rows of the result for one key.
MergeOne(left, right, key) ==
    LET ls == SelectSeq(left, LAMBDA r : SameKey(r, key))
        rs == SelectSeq(right, LAMBDA r : SameKey(r, key))
    IN  IF rs = <<>> THEN [i \in 1..Len(ls) |-> Reindex(ls[i], GuessColumns)]
        ELSE IF ls = <<>> THEN [i \in 1..Len(rs) |-> Reindex(rs[i], GuessColumns)]
        ELSE [i \in 1..(Len(ls) * Len(rs)) |->
                LET l == ls[((i - 1) \div Len(rs)) + 1]
                    r == rs[((i - 1) % Len(rs)) + 1]
                IN  [c \in Range(GuessColumns) |-> IF c \in DOMAIN l THEN l[c] ELSE r[c]]]

RECURSIVE MergeFrom(_, _, _)
MergeFrom(left, right, k) ==
    IF k > Len(MergeKeys) THEN <<>>
    ELSE MergeOne(left, right, MergeKeys[k]) \o MergeFrom(left, right, k + 1)

merge_outer(departed, landed) ==
    DataFrame(GuessColumns,
        MergeFrom([i \in 1..Len(departed.rows) |-> Project(departed.rows[i], EntryColumns)],
                  [i \in 1..Len(landed.rows) |-> Project(landed.rows[i], ExitColumns)], 1))

\* The merge raises KeyError when a side has no 'date' column.
MergeRaises(departed, landed) == ~HasColumn(departed, "date") \/ ~HasColumn(landed, "date")

\* if self.df_airport.empty or (departed.empty and landed.empty): return
AssignReturnsEarly(airports, departed, landed) ==
    empty(airports) \/ (empty(departed) /\ empty(landed))

\* The loop over target_airports from its i-th entry on.
RECURSIVE AirportLoop(_, _, _, _, _)
AirportLoop(t, airports, targets, i, r) ==
    IF i > Len(targets) THEN t
    ELSE AirportLoop(AirportIteration(t, airports, targets[i], r), airports, targets, i + 1, r)

\* The loop over df_fixes from its i-th row on.
RECURSIVE FixLoop(_, _, _, _)
FixLoop(t, fixes, i, r) ==
    IF i > Len(fixes.rows) THEN t
    ELSE FixLoop(FixIteration(t, fixes.rows[i], r), fixes, i + 1, r)

\* The endpoint tables one whole call assign(r) leaves.
RunAssign(t, airports, fixes, with_fixes, targets, r) ==
    IF AssignReturnsEarly(airports, t.departed, t.landed) THEN t
    ELSE LET a == AirportLoop(t, airports, targets, 1, r)
         IN  IF with_fixes THEN ConcatInTheAir(FixLoop(a, fixes, 1, r)) ELSE a

(***************************************************************************)
(* The inputs of the model.                                                *)
(***************************************************************************)
\* Optional[...] arguments: None, or one value.
None == <<>>
Some(x) == <<x>>

AirportColumns == <<"ICAO", "Latitude_decimal", "Longitude_decimal">>
FixColumns == <<"Name", "Latitude_decimal", "Longitude_decimal">>
TrkColumns == <<"date", "time", "Callsign", "Latitude", "Longitude", "Altitude", "Type">>

RJTT == [ICAO |-> "RJTT", Latitude_decimal |-> 356, Longitude_decimal |-> 1397]
RJAA == [ICAO |-> "RJAA", Latitude_decimal |-> 357, Longitude_decimal |-> 1397]
ADDUM == [Name |-> "ADDUM", Latitude_decimal |-> 356, Longitude_decimal |-> 1398]
BORDR == [Name |-> "BORDR", Latitude_decimal |-> 357, Longitude_decimal |-> 1398]

AirportFiles == {<<RJTT, RJAA>>, <<RJAA, RJTT>>}
FixesFiles == {None, Some(<<ADDUM, BORDR>>)}
TargetAirports == {None, Some(<<"RJXX", "RJAA">>)}

Radii == {10, 12, 16}

\* The position samples of the assignment runs: one day, two places, the
\* times rising with the input order.
Positions == {<<357, 1398>>, <<355, 1397>>}

Samples ==
    {[date |-> "20190816", time |-> 0, Callsign |-> c, Latitude |-> p[1],
      Longitude |-> p[2], Altitude |-> a, Type |-> "B738"] :
        c \in Range(CallsignOrder), p \in Positions, a \in {6000, 6001}}

Timed(rws) == [i \in 1..Len(rws) |-> [rws[i] EXCEPT !.time = i]]

\* The position samples of the reduction runs: two days, times of day that
\* tie and that cross the days, one place, and a Type cell that may be
\* missing.
DateTimes == {<<"20190816", 1>>, <<"20190816", 2>>, <<"20190817", 1>>}
AltitudeTypes == {<<6000, "B738">>, <<6000, NaN>>, <<6001, "B738">>}

PreSample(dt, c, at) ==
    [date |-> dt[1], time |-> dt[2], Callsign |-> c, Latitude |-> 356,
     Longitude |-> 1397, Altitude |-> at[1], Type |-> at[2]]

\* Every sample of one flight, and one sample of another flight in the air.
PreSamples ==
    {PreSample(dt, "JAL001", at) : dt \in DateTimes, at \in AltitudeTypes}
    \cup {PreSample(<<"20190816", 1>>, "ANA002", <<6001, "B738">>)}

SeqsUpTo(S, n) == UNION {[1..k -> S] : k \in 0..n}

TrkTables == {DataFrame(TrkColumns, Timed(rws)) : rws \in SeqsUpTo(Samples, MaxSamples)}
PreTables == {DataFrame(TrkColumns, rws) : rws \in SeqsUpTo(PreSamples, MaxSamples)}

\* The tables of the runs of the whole interface: one place, with the
\* date column and without it.
CsvColumns == <<"time", "Callsign", "Latitude", "Longitude", "Altitude", "Type">>

ApiSamples ==
    {[date |-> "20190816", time |-> 0, Callsign |-> c, Latitude |-> 357,
      Longitude |-> 1398, Altitude |-> a, Type |-> "B738"] :
        c \in Range(CallsignOrder), a \in {6000, 6001}}

Dateless(df) ==
    DataFrame(CsvColumns, [i \in 1..Len(df.rows) |-> Project(df.rows[i], CsvColumns)])

DatedTables == {DataFrame(TrkColumns, Timed(rws)) : rws \in SeqsUpTo(ApiSamples, MaxSamples)}
ApiTables == DatedTables \cup {Dateless(df) : df \in DatedTables}

\* The files of track samples: a path is the list of the pieces that
\* str.split cuts it into, the file behind it a table under its own header.
RawColumns == <<"Time", "FlightID", "Lat", "Lon", "Alt", "AircraftType">>

RawRow(t, c, a) ==
    [Time |-> t, FlightID |-> c, Lat |-> 357, Lon |-> 1398, Alt |-> a, AircraftType |-> "B738"]

TrkFile1 == <<"data", "/", "trk", "20190816", "_", "00", "_", "12", ".csv">>
TrkFile2 == <<"data", "/", "trk", "20190817", "_", "00", "_", "12", ".csv">>

read_csv(p) ==
    IF p = TrkFile1
    THEN DataFrame(RawColumns, <<RawRow(1, "JAL001", 6000), RawRow(2, "ANA002", 6001)>>)
    ELSE DataFrame(RawColumns, <<RawRow(1, "ANA002", 6000)>>)

PathLists == SeqsUpTo({TrkFile1, TrkFile2}, MaxSamples)

\* The arguments of load_trks_from_dates: the dates and the source time of
\* the two files.
DateLists == SeqsUpTo(Range(DateOrder), MaxSamples)
SourceTimes == <<<<"00", "_", "12">>>>

(***************************************************************************)
(* __init__ and _load_airports_and_fixes.                                  *)
(***************************************************************************)
\* A call of a method and its outcome: "returned" with the value returned
\* (None for a plain return), "running" while assign is in its loops, or the
\* name of the exception raised.  args holds the arguments no variable
\* keeps.
Call(op, outcome, value) ==
    [op |-> op, args |-> None, outcome |-> outcome, value |-> value]

Returned(op) == Call(op, "returned", None)

Names(rws, col) == [i \in 1..Len(rws) |-> rws[i][col]]

LoadedTargets(airport_file, fixes_file, target_arg) ==
    (IF target_arg = None THEN Names(airport_file, "ICAO") ELSE target_arg[1])
    \o (IF fixes_file # None THEN Names(fixes_file[1], "Name") ELSE <<>>)

\* The guesser after __init__(airport_file, fixes_file, target_arg), the
\* coordinates in tenths of a degree.
Constructed(airport_file, fixes_file, target_arg) ==
        /\ df_airport = DataFrame(AirportColumns, airport_file)
        /\ is_to_guess_fixes = (fixes_file # None)
        /\ df_fixes = IF fixes_file # None THEN DataFrame(FixColumns, fixes_file[1])
                      ELSE EmptyDataFrame
        /\ target_airports = LoadedTargets(airport_file, fixes_file, target_arg)
        /\ df_all_trk = EmptyDataFrame
        /\ df_trk_departed = EmptyDataFrame
        /\ df_trk_landed = EmptyDataFrame
        /\ df_trk_in_the_air_at_first = EmptyDataFrame
        /\ df_trk_in_the_air_at_last = EmptyDataFrame
        /\ df_guess = EmptyDataFrame
        /\ pc = "constructed"
        /\ icao_i = 0
        /\ radius_km = 0
        /\ calls = 0
        /\ returned = Returned("__init__")
        /\ csv = None
        /\ steps = 0

Init ==
    \E airport_file \in AirportFiles, fixes_file \in FixesFiles, target_arg \in TargetAirports :
        Constructed(airport_file, fixes_file, target_arg)

\* A guesser for all airports of one file, with and without fixes.
InitAll ==
    \E fixes_file \in FixesFiles : Constructed(<<RJTT, RJAA>>, fixes_file, None)

(***************************************************************************)
(* _load_airports_and_fixes on the coordinates as written in the files: a  *)
(* DMS string is the list of its characters, a decimal coordinate an       *)
(* integer in units of 0.00001 degree.                                     *)
(***************************************************************************)
Digits == <<"0", "1", "2", "3", "4", "5", "6", "7", "8", "9">>

\* int(s) of a string of digits.
RECURSIVE int(_)
int(chars) ==
    IF chars = <<>> THEN 0
    ELSE int(SubSeq(chars, 1, Len(chars) - 1)) * 10
         + (CHOOSE d \in 0..9 : Digits[d + 1] = chars[Len(chars)])

\* x[a:b]
Slice(x, a, b) == SubSeq(x, a + 1, b)

\* round(v, 5) of v = n / 3600 degrees, in units of 0.00001 degree: the
\* integer nearest to n * 100000 / 3600 = n * 250 / 9 (no n lies half way).
Round5(n) == (n * 500 + 9) \div 18

\* round(int(x[:w]) + int(x[w:w+2])/60 + int(x[w+2:w+4])/3600, 5), w the
\* number of degree digits.
ToDecimal(x, w) ==
    Round5(int(Slice(x, 0, w)) * 3600 + int(Slice(x, w, w + 2)) * 60
           + int(Slice(x, w + 2, w + 4)))

\* ap["Latitude_decimal"] = ...; ap["Longitude_decimal"] = ...
WithDecimals(df) ==
    DataFrame(df.columns \o <<"Latitude_decimal", "Longitude_decimal">>,
        [i \in 1..Len(df.rows) |->
            SetCell(SetCell(df.rows[i], "Latitude_decimal", ToDecimal(df.rows[i].Latitude, 2)),
                    "Longitude_decimal", ToDecimal(df.rows[i].Longitude, 3))])

\* The coordinates as the files hold them.
LatStrings ==
    {<<"3", "5", "4", "0", "3", "0">>, <<"3", "5", "3", "3", "1", "2">>,
     <<"0", "5", "5", "9", "5", "9">>, <<"4", "5", "2", "4", "0", "1", "N">>}
LonStrings ==
    {<<"1", "3", "9", "4", "6", "0", "0">>, <<"1", "4", "0", "2", "3", "0", "8">>,
     <<"0", "0", "9", "5", "9", "5", "9", "E">>}

RawAirportColumns == <<"ICAO", "Latitude", "Longitude">>
RawFixColumns == <<"Name", "Latitude", "Longitude">>

\* The text of the files, a row per line.
RawAirportFiles ==
    {<<[ICAO |-> "RJTT", Latitude |-> la1, Longitude |-> lo1],
       [ICAO |-> "RJAA", Latitude |-> la2, Longitude |-> lo2]>> :
        la1 \in LatStrings, lo1 \in LonStrings, la2 \in LatStrings, lo2 \in LonStrings}
RawFixesFiles ==
    {None} \cup {Some(<<[Name |-> "ADDUM", Latitude |-> la, Longitude |-> lo]>>) :
                    la \in LatStrings, lo \in LonStrings}

\* pd.read_csv without dtype: a column whose cells are all numbers is read
\* as integers, any other column as strings.
IsDigits(x) == \A i \in 1..Len(x) : x[i] \in Range(Digits)

IntColumn(rws, col) == rws # <<>> /\ \A i \in 1..Len(rws) : IsDigits(rws[i][col])

\* x[:2] on a cell that is an integer raises TypeError.
ConversionRaises(rws) == IntColumn(rws, "Latitude") \/ IntColumn(rws, "Longitude")

\* __init__ up to the call of _load_airports_and_fixes; args holds the text
\* of airport_file and of fixes_file.
InitRaw ==
    \E airport_file \in RawAirportFiles, fixes_file \in RawFixesFiles,
       target_arg \in TargetAirports :
        /\ df_airport = EmptyDataFrame
        /\ is_to_guess_fixes = (fixes_file # None)
        /\ df_fixes = EmptyDataFrame
        /\ target_airports = target_arg
        /\ df_all_trk = EmptyDataFrame
        /\ df_trk_departed = EmptyDataFrame
        /\ df_trk_landed = EmptyDataFrame
        /\ df_trk_in_the_air_at_first = EmptyDataFrame
        /\ df_trk_in_the_air_at_last = EmptyDataFrame
        /\ df_guess = EmptyDataFrame
        /\ pc = "reading"
        /\ icao_i = 0
        /\ radius_km = 0
        /\ calls = 0
        /\ returned = [Call("__init__", "running", None)
                          EXCEPT !.args = <<airport_file, fixes_file>>]
        /\ csv = None
        /\ steps = 0

\* The object is there only if __init__ returns: after an exception pc is
\* "init_raised" and no method can be called.
load_airports_and_fixes ==
    /\ pc = "reading"
    /\ LET ap == returned.args[1]
           fix == returned.args[2]
       IN  IF ConversionRaises(ap)
           THEN /\ pc' = "init_raised"
                /\ returned' = [returned EXCEPT !.outcome = "TypeError"]
                /\ UNCHANGED <<df_airport, df_fixes, target_airports>>
           ELSE IF is_to_guess_fixes /\ ConversionRaises(fix[1])
           THEN /\ df_airport' = WithDecimals(DataFrame(RawAirportColumns, ap))
                /\ pc' = "init_raised"
                /\ returned' = [returned EXCEPT !.outcome = "TypeError"]
                /\ UNCHANGED <<df_fixes, target_airports>>
           ELSE /\ df_airport' = WithDecimals(DataFrame(RawAirportColumns, ap))
                /\ df_fixes' = IF is_to_guess_fixes
                               THEN WithDecimals(DataFrame(RawFixColumns, fix[1]))
                               ELSE df_fixes
                /\ target_airports' = LoadedTargets(ap, fix, target_airports)
                /\ pc' = "constructed"
                /\ returned' = [returned EXCEPT !.outcome = "returned"]
    /\ UNCHANGED <<csv, is_to_guess_fixes, df_all_trk, df_trk_departed, df_trk_landed,
                   df_trk_in_the_air_at_first, df_trk_in_the_air_at_last, df_guess,
                   icao_i, radius_km, calls, steps>>

gazetteer == <<df_airport, df_fixes, is_to_guess_fixes, target_airports>>
endpoints == <<df_trk_departed, df_trk_landed, df_trk_in_the_air_at_first,
               df_trk_in_the_air_at_last>>

CurrentTables ==
    Tables(df_trk_departed, df_trk_landed, df_trk_in_the_air_at_first, df_trk_in_the_air_at_last)

SetTables(t) ==
    /\ df_trk_departed' = t.departed
    /\ df_trk_landed' = t.landed
    /\ df_trk_in_the_air_at_first' = t.in_the_air_at_first
    /\ df_trk_in_the_air_at_last' = t.in_the_air_at_last

(***************************************************************************)
(* The calls of the interface.  A method may be called whenever no call is *)
(* running, in any order; pc then tells which call changed the tables      *)
(* last.  The number of calls of a behaviour is bounded by MaxCalls.       *)
(***************************************************************************)
Idle == pc \in {"constructed", "loaded", "preprocessed", "assigned", "raised"}

Called == steps < MaxCalls /\ steps' = steps + 1

(***************************************************************************)
(* set_trks_df                                                             *)
(***************************************************************************)
set_trks_df(df_trks) ==
    /\ Idle
    /\ Called
    /\ df_all_trk' = df_trks
    /\ pc' = "loaded"
    /\ returned' = Returned("set_trks_df")
    /\ UNCHANGED <<gazetteer, csv, endpoints, df_guess, icao_i, radius_km, calls>>

(***************************************************************************)
(* load_trks_from_paths, load_trks_from_dates                              *)
(***************************************************************************)
\* s.split(sep) of a path in pieces: the runs of pieces between the pieces
\* equal to sep, each run joined to one string.
RECURSIVE Join(_)
Join(pieces) == IF pieces = <<>> THEN "" ELSE Head(pieces) \o Join(Tail(pieces))

RECURSIVE SplitRuns(_, _, _)
SplitRuns(pieces, sep, run) ==
    IF pieces = <<>> THEN <<run>>
    ELSE IF Head(pieces) = sep THEN <<run>> \o SplitRuns(Tail(pieces), sep, <<>>)
    ELSE SplitRuns(Tail(pieces), sep, Append(run, Head(pieces)))

\* p.split('trk')[1].split('_')[0]
PathDate(p) == Join(SplitRuns(SplitRuns(p, "trk", <<>>)[2], "_", <<>>)[1])

\* df.columns = [...]: the columns renamed by position.
Rename(df, cols) ==
    DataFrame(cols,
        [i \in 1..Len(df.rows) |->
            [c \in Range(cols) |->
                df.rows[i][df.columns[CHOOSE j \in 1..Len(cols) : cols[j] = c]]]])

\* df.insert(0, 'date', None); df.loc[:, 'date'] = date
InsertDate(df, date) ==
    DataFrame(<<"date">> \o df.columns,
        [i \in 1..Len(df.rows) |-> SetCell(df.rows[i], "date", date)])

\* The frame built from one path.
TrkFrame(p) == InsertDate(Rename(read_csv(p), CsvColumns), PathDate(p))

RECURSIVE ConcatFrames(_, _)
ConcatFrames(df, paths) ==
    IF paths = <<>> THEN df
    ELSE ConcatFrames(Concat(df, TrkFrame(Head(paths))), Tail(paths))

\* The frames are appended to the samples there are; without a path the
\* samples stay as they are.
load_trks_from_paths(paths) ==
    /\ Idle
    /\ Called
    /\ df_all_trk' = ConcatFrames(df_all_trk, paths)
    /\ pc' = "loaded"
    /\ returned' = Returned("load_trks_from_paths")
    /\ UNCHANGED <<gazetteer, csv, endpoints, df_guess, icao_i, radius_km, calls>>

\* f"{trk_dir}/trk{d}_{st}.csv"
DatePath(trk_dir, d, st) == <<trk_dir, "/", "trk", d, "_">> \o st \o <<".csv">>

\* The paths of the dates, each date with every source time in turn.
RECURSIVE DatePaths(_, _, _)
DatePaths(dates, source_times, trk_dir) ==
    IF dates = <<>> THEN <<>>
    ELSE [j \in 1..Len(source_times) |-> DatePath(trk_dir, Head(dates), source_times[j])]
         \o DatePaths(Tail(dates), source_times, trk_dir)

load_trks_from_dates(dates, source_times, trk_dir) ==
    /\ Idle
    /\ Called
    /\ df_all_trk' = ConcatFrames(df_all_trk, DatePaths(dates, source_times, trk_dir))
    /\ pc' = "loaded"
    /\ returned' = Returned("load_trks_from_dates")
    /\ UNCHANGED <<gazetteer, csv, endpoints, df_guess, icao_i, radius_km, calls>>

(***************************************************************************)
(* preprocess                                                              *)
(***************************************************************************)
\* preprocess without the return on an empty table: sort_values finds no
\* Callsign column.
preprocess_unguarded ==
    /\ Idle
    /\ Called
    /\ IF empty(df_all_trk)
       THEN /\ returned' = Call("preprocess", "KeyError", None)
            /\ UNCHANGED <<gazetteer, csv, df_all_trk, endpoints, df_guess, pc, icao_i, radius_km, calls>>
       ELSE /\ returned' = Returned("preprocess")
            /\ df_all_trk' = sort_values(df_all_trk)
            /\ SetTables(PreprocessTables(df_all_trk, is_to_guess_fixes, CurrentTables))
            /\ pc' = "preprocessed"
            /\ calls' = 0
            /\ UNCHANGED <<gazetteer, csv, df_guess, icao_i, radius_km>>

preprocess ==
    /\ Idle
    /\ Called
    /\ returned' = Returned("preprocess")
    /\ IF empty(df_all_trk)
       THEN UNCHANGED <<gazetteer, csv, df_all_trk, endpoints, df_guess, pc, icao_i, radius_km, calls>>
       ELSE /\ df_all_trk' = sort_values(df_all_trk)
            /\ SetTables(PreprocessTables(df_all_trk, is_to_guess_fixes, CurrentTables))
            /\ pc' = "preprocessed"
            /\ calls' = 0
            /\ UNCHANGED <<gazetteer, csv, df_guess, icao_i, radius_km>>

(***************************************************************************)
(* assign, one step per loop iteration.  calls counts the assign calls     *)
(* that ran since the last preprocess, MaxAssignCalls bounds them.         *)
(***************************************************************************)
\* assign that starts by clearing the points and distances.
assign_reinit(r) ==
    /\ Idle
    /\ Called
    /\ calls < MaxAssignCalls
    /\ IF AssignReturnsEarly(df_airport, df_trk_departed, df_trk_landed)
       THEN /\ returned' = Returned("assign")
            /\ radius_km' = r
            /\ UNCHANGED <<gazetteer, csv, df_all_trk, endpoints, df_guess, pc, icao_i, calls>>
       ELSE /\ pc' = "assign_airports"
            /\ icao_i' = 1
            /\ radius_km' = r
            /\ calls' = calls + 1
            /\ returned' = Call("assign", "running", None)
            /\ df_trk_departed' = InitEntry(df_trk_departed)
            /\ df_trk_landed' = InitExit(df_trk_landed)
            /\ df_trk_in_the_air_at_first' = InitEntry(df_trk_in_the_air_at_first)
            /\ df_trk_in_the_air_at_last' = InitExit(df_trk_in_the_air_at_last)
            /\ UNCHANGED <<gazetteer, csv, df_all_trk, df_guess>>

assign(r) ==
    /\ Idle
    /\ Called
    /\ calls < MaxAssignCalls
    /\ IF AssignReturnsEarly(df_airport, df_trk_departed, df_trk_landed)
       THEN /\ returned' = Returned("assign")
            /\ radius_km' = r
            /\ UNCHANGED <<gazetteer, csv, df_all_trk, endpoints, df_guess, pc, icao_i, calls>>
       ELSE /\ pc' = "assign_airports"
            /\ icao_i' = 1
            /\ radius_km' = r
            /\ calls' = calls + 1
            /\ returned' = Call("assign", "running", None)
            /\ UNCHANGED <<gazetteer, csv, df_all_trk, endpoints, df_guess>>

assign_airport ==
    /\ pc = "assign_airports"
    /\ SetTables(AirportIteration(CurrentTables, df_airport, target_airports[icao_i], radius_km))
    /\ IF icao_i < Len(target_airports)
       THEN /\ icao_i' = icao_i + 1
            /\ pc' = pc
       ELSE /\ icao_i' = 1
            /\ pc' = IF is_to_guess_fixes THEN "assign_fixes" ELSE "assign_merge"
    /\ UNCHANGED <<gazetteer, csv, df_all_trk, df_guess, radius_km, calls, returned, steps>>

assign_fix ==
    /\ pc = "assign_fixes"
    /\ SetTables(FixIteration(CurrentTables, df_fixes.rows[icao_i], radius_km))
    /\ IF icao_i < Len(df_fixes.rows)
       THEN /\ icao_i' = icao_i + 1
            /\ pc' = pc
       ELSE /\ icao_i' = 1
            /\ pc' = "assign_merge"
    /\ UNCHANGED <<gazetteer, csv, df_all_trk, df_guess, radius_km, calls, returned, steps>>

assign_merge ==
    /\ pc = "assign_merge"
    /\ LET t == IF is_to_guess_fixes THEN ConcatInTheAir(CurrentTables) ELSE CurrentTables
       IN  /\ SetTables(t)
           /\ IF MergeRaises(t.departed, t.landed)
              THEN /\ pc' = "raised"
                   /\ returned' = Call("assign", "KeyError", None)
                   /\ UNCHANGED df_guess
              ELSE /\ pc' = "assigned"
                   /\ returned' = Returned("assign")
                   /\ df_guess' = merge_outer(t.departed, t.landed)
    /\ icao_i' = 0
    /\ UNCHANGED <<gazetteer, csv, df_all_trk, radius_km, calls, steps>>

(***************************************************************************)
(* get_guess_df                                                            *)
(***************************************************************************)
ReturnColumns ==
    <<"Callsign", "EntryPoint", "Distance_to_EntryPoint", "ExitPoint", "Distance_to_ExitPoint">>

\* df[cols]
Select(df, cols) == DataFrame(cols, [i \in 1..Len(df.rows) |-> Project(df.rows[i], cols)])

\* get_guess_df that ignores include_date.
GuessDfWithDate(include_date) == df_guess

GuessDf(include_date) ==
    IF empty(df_guess) THEN df_guess
    ELSE IF include_date = FALSE THEN Select(df_guess, ReturnColumns)
    ELSE df_guess

get_guess_df(include_date) ==
    /\ Idle
    /\ Called
    /\ returned' = [Call("get_guess_df", "returned", Some(GuessDf(include_date)))
                        EXCEPT !.args = Some(include_date)]
    /\ UNCHANGED <<gazetteer, csv, df_all_trk, endpoints, df_guess, pc, icao_i, radius_km, calls>>

(***************************************************************************)
(* to_csv                                                                  *)
(***************************************************************************)
TrkGuessColumns == <<"Callsign", "EntryPoint", "ExitPoint">>

\* The name a column of one side gets in pd.merge(..., on='Callsign'): a
\* name both sides have, the key apart, gets the suffix of its side.
Suffixed(c, other, suffix) ==
    IF c # "Callsign" /\ HasColumn(other, c) THEN c \o suffix ELSE c

LeftColumns(left, right) ==
    [j \in 1..Len(left.columns) |-> Suffixed(left.columns[j], right, "_x")]

RightColumns(left, right) ==
    LET cs == SelectSeq(right.columns, LAMBDA c : c # "Callsign")
    IN  [j \in 1..Len(cs) |-> Suffixed(cs[j], left, "_y")]

\* A row of the merge from a row of left and a row of right (None: left has
\* no partner, the cells of right are missing).
MergedRow(left, right, row, partner) ==
    [k \in Range(LeftColumns(left, right)) \cup Range(RightColumns(left, right)) |->
        IF \E c \in Range(left.columns) : Suffixed(c, right, "_x") = k
        THEN row[CHOOSE c \in Range(left.columns) : Suffixed(c, right, "_x") = k]
        ELSE IF partner = None THEN NaN
        ELSE partner[1][CHOOSE c \in Range(right.columns) :
                            c # "Callsign" /\ Suffixed(c, left, "_y") = k]]

\* The rows of pd.merge(left, right, how='left', on='Callsign') for one row
\* of left: one per row of right with its Callsign, in the order of right,
\* and the row with the cells of right missing if there is none.
MergeLeftOne(left, right, row) ==
    LET rs == SelectSeq(right.rows, LAMBDA r : r.Callsign = row.Callsign)
    IN  IF rs = <<>> THEN <<MergedRow(left, right, row, None)>>
        ELSE [i \in 1..Len(rs) |-> MergedRow(left, right, row, Some(rs[i]))]

RECURSIVE MergeLeftFrom(_, _, _)
MergeLeftFrom(left, right, i) ==
    IF i > Len(left.rows) THEN <<>>
    ELSE MergeLeftOne(left, right, left.rows[i]) \o MergeLeftFrom(left, right, i + 1)

\* The rows in the order of left, the columns of right behind those of left.
merge_left(left, right) ==
    DataFrame(LeftColumns(left, right) \o RightColumns(left, right),
              MergeLeftFrom(left, right, 1))

\* df.drop(columns=[c])
Drop(df, c) == Select(df, SelectSeq(df.columns, LAMBDA k : k # c))

\* self.df_all_trk after the merge of to_csv(include_trks=True).
TrkAfterToCsv == merge_left(df_all_trk, Select(df_guess, TrkGuessColumns))

\* The call with its arguments and its outcome.
ToCsvCall(include_trks, include_date, outcome) ==
    [Call("to_csv", outcome, None) EXCEPT !.args = <<include_trks, include_date>>]

\* Without include_trks the result is written twice to the path, the second
\* time with the date, and the second file is the one that stays.  With
\* include_trks the merge raises KeyError on samples without Callsign, and
\* drop raises KeyError on samples without date after the merged table was
\* stored.
to_csv(include_trks, include_date) ==
    /\ Idle
    /\ Called
    /\ IF empty(df_guess)
       THEN /\ returned' = ToCsvCall(include_trks, include_date, "returned")
            /\ UNCHANGED <<df_all_trk, csv, pc>>
       ELSE IF include_trks = FALSE
       THEN /\ returned' = ToCsvCall(include_trks, include_date, "returned")
            /\ csv' = Some(df_guess)
            /\ UNCHANGED <<df_all_trk, pc>>
       ELSE IF ~HasColumn(df_all_trk, "Callsign")
       THEN /\ returned' = ToCsvCall(include_trks, include_date, "KeyError")
            /\ pc' = "raised"
            /\ UNCHANGED <<df_all_trk, csv>>
       ELSE /\ df_all_trk' = TrkAfterToCsv
            /\ IF include_date = TRUE
               THEN /\ returned' = ToCsvCall(include_trks, include_date, "returned")
                    /\ csv' = Some(TrkAfterToCsv)
                    /\ pc' = pc
               ELSE IF HasColumn(TrkAfterToCsv, "date")
               THEN /\ returned' = ToCsvCall(include_trks, include_date, "returned")
                    /\ csv' = Some(Drop(TrkAfterToCsv, "date"))
                    /\ pc' = pc
               ELSE /\ returned' = ToCsvCall(include_trks, include_date, "KeyError")
                    /\ pc' = "raised"
                    /\ csv' = csv
    /\ UNCHANGED <<gazetteer, endpoints, df_guess, icao_i, radius_km, calls>>

(***************************************************************************)
(* The script airport_guess.py (src/airport_guess.py): df_trk_departed is  *)
(* its df_trk_just_deperted, df_trk_landed its df_trk_just_before_landed,  *)
(* df_guess its df_airport_guess.                                          *)
(***************************************************************************)
\* The radius written into the script, in km.
LegacyRadius == 10

\* The list of target airports written into the script.
LegacyTargets ==
    <<"RJTT", "RJFF", "RJBB", "RJAA", "ROAH", "RJCC", "RJGG", "RJOO", "RJSS", "RJFK">>

Airport(icao, lat, lon) == [ICAO |-> icao, Latitude_decimal |-> lat, Longitude_decimal |-> lon]

\* The airport tables of the script: one with every target, the targets
\* but RJTT and RJAA more than 10 km away from every sample, and the two of
\* AirportFiles, which lack the second target.
LegacyAirportFiles ==
    AirportFiles \cup
    {<<Airport("RJAA", 357, 1397), Airport("RJBB", 354, 1396), Airport("RJCC", 354, 1399),
       Airport("RJFF", 354, 1395), Airport("RJFK", 358, 1399), Airport("RJGG", 358, 1395),
       Airport("RJOO", 358, 1396), Airport("RJSS", 358, 1398), Airport("RJTT", 356, 1397),
       Airport("ROAH", 354, 1398)>>}

\* The samples the script reads: no date, one place on RJTT, one on RJAA
\* and one 11 km away from RJTT.
LegacySamples ==
    {[time |-> 0, Callsign |-> c, Latitude |-> p[1], Longitude |-> p[2],
      Altitude |-> a, Type |-> "B738"] :
        c \in Range(CallsignOrder), p \in {<<356, 1397>>, <<357, 1397>>, <<355, 1397>>}, a \in {6000, 6001}}

LegacyTables ==
    {DataFrame(CsvColumns, Timed(rws)) : rws \in SeqsUpTo(LegacySamples, MaxSamples) \ {<<>>}}

\* df.loc[df[point].isna(), 'Distance_to_Airport_temp'] = distance
SetTemp(df, point, lat, lon) ==
    DataFrame(IF HasColumn(df, "Distance_to_Airport_temp") THEN df.columns
              ELSE Append(df.columns, "Distance_to_Airport_temp"),
        [i \in 1..Len(df.rows) |->
            SetCell(df.rows[i], "Distance_to_Airport_temp",
                    IF isna(point, df.rows[i][point]) THEN Distance(df.rows[i], lat, lon)
                    ELSE NaNf)])

\* df[point].isna() & (df['Distance_to_Airport_temp'] <= 10.0)
LegacyMask(row, point) ==
    /\ isna(point, row[point])
    /\ row.Distance_to_Airport_temp # NaNf
    /\ WithinRadius(row.Distance_to_Airport_temp, LegacyRadius)

\* df.loc[mask, point] = target_airport
SetAirport(df, point, name) ==
    DataFrame(df.columns,
        [i \in 1..Len(df.rows) |->
            IF LegacyMask(df.rows[i], point) THEN [df.rows[i] EXCEPT ![point] = name]
            ELSE df.rows[i]])

\* df.loc[mask, ['Distance_to_Airport']] = df['Distance_to_Airport_temp'],
\* the mask taken from the table as it is now; the column is added with
\* missing cells if the table has none.
SetDistance(df, point) ==
    DataFrame(IF HasColumn(df, "Distance_to_Airport") THEN df.columns
              ELSE Append(df.columns, "Distance_to_Airport"),
        [i \in 1..Len(df.rows) |->
            LET row == df.rows[i]
            IN  SetCell(row, "Distance_to_Airport",
                    IF LegacyMask(row, point) THEN row.Distance_to_Airport_temp
                    ELSE IF "Distance_to_Airport" \in DOMAIN row THEN row.Distance_to_Airport
                    ELSE NaNf)])

\* One iteration of the loop over target_airports on one table.
LegacyIteration(df, point, name, lat, lon) ==
    Drop(SetDistance(SetAirport(SetTemp(df, point, lat, lon), point, name), point),
         "Distance_to_Airport_temp")

LegacyDepColumns == <<"Callsign", "DEP_Airport", "Distance_to_Airport">>
LegacyArrColumns == <<"Callsign", "ARR_Airport", "Distance_to_Airport">>
LegacyGuessColumns ==
    <<"Callsign", "DEP_Airport", "Distance_to_Airport_DEP", "ARR_Airport",
      "Distance_to_Airport_ARR">>

\* pd.merge(dep[...], arr[...], on='Callsign', how='outer',
\* suffixes=('_DEP', '_ARR')) of tables with one row for a Callsign at most.
LegacyMerge(dep, arr) ==
    LET keys == SelectSeq(CallsignOrder, LAMBDA c :
                    \E row \in Range(dep.rows) \cup Range(arr.rows) : row.Callsign = c)
    IN  DataFrame(LegacyGuessColumns,
            [i \in 1..Len(keys) |->
                LET ds == SelectSeq(dep.rows, LAMBDA r : r.Callsign = keys[i])
                    as == SelectSeq(arr.rows, LAMBDA r : r.Callsign = keys[i])
                IN  [Callsign |-> keys[i],
                     DEP_Airport |-> IF ds = <<>> THEN NaN ELSE ds[1].DEP_Airport,
                     Distance_to_Airport_DEP |->
                        IF ds = <<>> THEN NaNf ELSE ds[1].Distance_to_Airport,
                     ARR_Airport |-> IF as = <<>> THEN NaN ELSE as[1].ARR_Airport,
                     Distance_to_Airport_ARR |->
                        IF as = <<>> THEN NaNf ELSE as[1].Distance_to_Airport]])

\* The script up to its loop over target_airports.
InitLegacy ==
    \E airport_file \in LegacyAirportFiles, trks \in LegacyTables :
        LET sorted == sort_values(trks)
        IN  /\ df_airport = DataFrame(AirportColumns, airport_file)
            /\ is_to_guess_fixes = FALSE
            /\ df_fixes = EmptyDataFrame
            /\ target_airports = LegacyTargets
            /\ df_all_trk = trks
            /\ df_trk_departed = SetColumn(Grounded(groupby_first(sorted)), "DEP_Airport", NaN)
            /\ df_trk_landed = SetColumn(Grounded(groupby_last(sorted)), "ARR_Airport", NaN)
            /\ df_trk_in_the_air_at_first = EmptyDataFrame
            /\ df_trk_in_the_air_at_last = EmptyDataFrame
            /\ df_guess = EmptyDataFrame
            /\ pc = "legacy_loop"
            /\ icao_i = 1
            /\ radius_km = LegacyRadius
            /\ calls = 0
            /\ returned = Call("airport_guess", "running", None)
            /\ csv = None
            /\ steps = 0

\* One pass of the loop; .values[0] raises IndexError for a target that is
\* not in df_airport, before the pass changed anything.
airport_guess_iteration ==
    /\ pc = "legacy_loop"
    /\ LET row == AirportRows(df_airport, target_airports[icao_i])
       IN  IF row = <<>>
           THEN /\ pc' = "legacy_raised"
                /\ returned' = Call("airport_guess", "IndexError", None)
                /\ UNCHANGED <<df_trk_departed, df_trk_landed, icao_i>>
           ELSE /\ df_trk_departed' =
                      LegacyIteration(df_trk_departed, "DEP_Airport", target_airports[icao_i],
                                      row[1].Latitude_decimal, row[1].Longitude_decimal)
                /\ df_trk_landed' =
                      LegacyIteration(df_trk_landed, "ARR_Airport", target_airports[icao_i],
                                      row[1].Latitude_decimal, row[1].Longitude_decimal)
                /\ IF icao_i < Len(target_airports)
                   THEN icao_i' = icao_i + 1 /\ pc' = pc
                   ELSE icao_i' = 0 /\ pc' = "legacy_merge"
                /\ returned' = returned
    /\ UNCHANGED <<gazetteer, csv, df_all_trk, df_trk_in_the_air_at_first,
                   df_trk_in_the_air_at_last, df_guess, radius_km, calls, steps>>

airport_guess_merge ==
    /\ pc = "legacy_merge"
    /\ df_guess' = LegacyMerge(Select(df_trk_departed, LegacyDepColumns),
                               Select(df_trk_landed, LegacyArrColumns))
    /\ pc' = "legacy_done"
    /\ returned' = Returned("airport_guess")
    /\ UNCHANGED <<gazetteer, csv, df_all_trk, endpoints, icao_i, radius_km, calls, steps>>

Next ==
    \/ \E df_trks \in TrkTables : set_trks_df(df_trks)
    \/ preprocess
    \/ \E r \in Radii : assign(r)
    \/ assign_airport
    \/ assign_fix
    \/ assign_merge

Spec == Init /\ [][Next]_vars

\* The reduction alone, on samples of two days.
NextPre ==
    \/ \E df_trks \in PreTables : set_trks_df(df_trks)
    \/ preprocess

SpecPre == InitAll /\ [][NextPre]_vars

\* The whole interface, on samples of one place with and without dates.
NextApi ==
    \/ \E df_trks \in ApiTables : set_trks_df(df_trks)
    \/ \E paths \in PathLists : load_trks_from_paths(paths)
    \/ \E dates \in DateLists : load_trks_from_dates(dates, SourceTimes, "data")
    \/ preprocess
    \/ \E r \in Radii : assign(r)
    \/ assign_airport
    \/ assign_fix
    \/ assign_merge
    \/ \E include_date \in BOOLEAN : get_guess_df(include_date)

SpecApi == InitAll /\ [][NextApi]_vars

\* The writing of the result, on samples of one place.
NextCsv ==
    \/ \E df_trks \in ApiTables : set_trks_df(df_trks)
    \/ preprocess
    \/ \E r \in Radii : assign(r)
    \/ assign_airport
    \/ assign_fix
    \/ assign_merge
    \/ \E include_trks \in BOOLEAN, include_date \in BOOLEAN : to_csv(include_trks, include_date)

SpecCsv == InitAll /\ [][NextCsv]_vars

\* The script airport_guess.py.
NextLegacy ==
    \/ airport_guess_iteration
    \/ airport_guess_merge

SpecLegacy == InitLegacy /\ [][NextLegacy]_vars

\* The construction alone, on the coordinates as written.
NextLoad == load_airports_and_fixes

SpecLoad == InitRaw /\ [][NextLoad]_vars

(***************************************************************************)
(* Properties of preprocess.                                               *)
(***************************************************************************)
SampleRows == Range(df_all_trk.rows)

\* The samples of one flight of one day.
FlightDay(c, d) == {m \in SampleRows : m.Callsign = c /\ m.date = d}

FlightDays == {<<m.Callsign, m.date>> : m \in SampleRows}

RowsOf(df) == Range(df.rows)

\* The cells of an endpoint row that come from the samples.
SampleCells(row) == Project(row, TrkColumns)

\* C7: with dated samples the reduction groups by (Callsign, date): every
\* flight of every day has endpoint rows of its own, so a flight of a day
\* whose samples are all at or below the threshold altitude has a departed
\* row and a landed row of that day.
C7_GroupedByCallsignAndDate ==
    pc = "preprocessed" =>
        \A k \in FlightDays :
            (\A m \in FlightDay(k[1], k[2]) : m.Altitude <= AltitudeThreshold) =>
                /\ \E row \in RowsOf(df_trk_departed) : row.Callsign = k[1] /\ row.date = k[2]
                /\ \E row \in RowsOf(df_trk_landed) : row.Callsign = k[1] /\ row.date = k[2]

\* The samples of a group with the least / greatest time.
Earliest(group) == {m \in group : \A n \in group : m.time <= n.time}
Latest(group) == {m \in group : \A n \in group : m.time >= n.time}

\* C8: every group of samples has one first row, which is a sample of the
\* group with the least time, and one last row, which is a sample of the
\* group with the greatest time, every cell of a row from that one sample.
\* Stated on the rows preprocess keeps: a group whose samples are all at or
\* below the threshold altitude has exactly one departed row, equal to an
\* earliest sample, and exactly one landed row, equal to a latest sample.
C8_FirstAndLastAreSamples ==
    pc = "preprocessed" =>
        \A k \in FlightDays :
            LET group == FlightDay(k[1], k[2])
                dep == SelectSeq(df_trk_departed.rows,
                                 LAMBDA row : row.Callsign = k[1] /\ row.date = k[2])
                land == SelectSeq(df_trk_landed.rows,
                                  LAMBDA row : row.Callsign = k[1] /\ row.date = k[2])
            IN  (\A m \in group : m.Altitude <= AltitudeThreshold) =>
                    /\ Len(dep) = 1 /\ SampleCells(dep[1]) \in Earliest(group)
                    /\ Len(land) = 1 /\ SampleCells(land[1]) \in Latest(group)

\* C9: after preprocess departed holds exactly the first rows whose altitude
\* is at or below the threshold, and landed exactly such last rows; no row
\* above the threshold is in either.
C9_GroundedSplit ==
    pc = "preprocessed" =>
        LET first == groupby_first(df_all_trk)
            last == groupby_last(df_all_trk)
        IN  /\ \A row \in RowsOf(df_trk_departed) :
                 row.Altitude <= AltitudeThreshold /\ Project(row, first.columns) \in RowsOf(first)
            /\ \A row \in RowsOf(df_trk_landed) :
                 row.Altitude <= AltitudeThreshold /\ Project(row, last.columns) \in RowsOf(last)
            /\ \A f \in RowsOf(first) : f.Altitude <= AltitudeThreshold =>
                 \E row \in RowsOf(df_trk_departed) : Project(row, first.columns) = f
            /\ \A l \in RowsOf(last) : l.Altitude <= AltitudeThreshold =>
                 \E row \in RowsOf(df_trk_landed) : Project(row, last.columns) = l
            /\ Len(df_trk_departed.rows) <= Len(first.rows)
            /\ Len(df_trk_landed.rows) <= Len(last.rows)

\* A batch in which one flight starts exactly at the threshold altitude and
\* is kept as departed, while a last row above the threshold is left out.
C9_Witness ==
    /\ pc = "preprocessed"
    /\ \E row \in RowsOf(df_trk_departed) : row.Altitude = AltitudeThreshold
    /\ \E l \in RowsOf(groupby_last(df_all_trk)) : l.Altitude > AltitudeThreshold
    /\ Len(df_trk_landed.rows) < Len(groupby_last(df_all_trk).rows)

\* C10: the in-the-air tables hold exactly the first / last rows of the
\* flights whose (Callsign, date) is in neither departed nor landed.
GroundedKeys ==
    {<<row.Callsign, row.date>> : row \in RowsOf(df_trk_departed) \cup RowsOf(df_trk_landed)}

C10_InTheAirByCallsignAndDate ==
    (pc = "preprocessed" /\ is_to_guess_fixes) =>
        LET first == groupby_first(df_all_trk)
            last == groupby_last(df_all_trk)
        IN  /\ \A f \in RowsOf(first) :
                 (<<f.Callsign, f.date>> \notin GroundedKeys) <=>
                 (\E row \in RowsOf(df_trk_in_the_air_at_first) : Project(row, first.columns) = f)
            /\ \A l \in RowsOf(last) :
                 (<<l.Callsign, l.date>> \notin GroundedKeys) <=>
                 (\E row \in RowsOf(df_trk_in_the_air_at_last) : Project(row, last.columns) = l)
            /\ {row.Callsign : row \in RowsOf(df_trk_in_the_air_at_first)}
                 = {row.Callsign : row \in RowsOf(df_trk_in_the_air_at_last)}

(***************************************************************************)
(* Properties of assign.                                                   *)
(***************************************************************************)
AssignPcs == {"assign_airports", "assign_fixes", "assign_merge"}

\* The planar distance of a row to (lat, lon) is at most r km, on the
\* squares: (dlat^2 + dlon^2) * 111.32^2 <= r^2.
PlanarWithin(row, lat, lon, r) ==
    ((row.Latitude - lat) * (row.Latitude - lat)
        + (row.Longitude - lon) * (row.Longitude - lon)) * 11132 * 11132
    <= (r * 1000) * (r * 1000)

Location(n, lat, lon) == [name |-> n, lat |-> lat, lon |-> lon]

AirportLocations ==
    {Location(a.ICAO, a.Latitude_decimal, a.Longitude_decimal) : a \in RowsOf(df_airport)}
FixLocations ==
    {Location(f.Name, f.Latitude_decimal, f.Longitude_decimal) : f \in RowsOf(df_fixes)}

\* The airports the loop over target_airports tries, in its order.
AirportPriority ==
    LET hits == SelectSeq(target_airports,
                          LAMBDA n : \E l \in AirportLocations : l.name = n)
    IN  [i \in 1..Len(hits) |-> CHOOSE l \in AirportLocations : l.name = hits[i]]

\* The fixes the loop over df_fixes tries, in its order.
FixPriority ==
    [i \in 1..Len(df_fixes.rows) |->
        Location(df_fixes.rows[i].Name, df_fixes.rows[i].Latitude_decimal,
                 df_fixes.rows[i].Longitude_decimal)]

InReach(prio, row, r) ==
    {j \in 1..Len(prio) : PlanarWithin(row, prio[j].lat, prio[j].lon, r)}

\* The first location of a priority list within r km of a row.
FirstInReach(prio, row, r) ==
    prio[CHOOSE j \in InReach(prio, row, r) : \A k \in InReach(prio, row, r) : j <= k].name

\* The endpoints: every row of the four tables with its point and distance.
Endpoint(row, point, dist) == [row |-> row, point |-> row[point], dist |-> row[dist]]

EntryEndpoints(df) == {Endpoint(row, "EntryPoint", "Distance_to_EntryPoint") : row \in RowsOf(df)}
ExitEndpoints(df) == {Endpoint(row, "ExitPoint", "Distance_to_ExitPoint") : row \in RowsOf(df)}

AllEndpoints ==
    EntryEndpoints(df_trk_departed) \cup ExitEndpoints(df_trk_landed)
    \cup EntryEndpoints(df_trk_in_the_air_at_first) \cup ExitEndpoints(df_trk_in_the_air_at_last)

\* The endpoints airports are tried on (departed and landed hold them, from
\* the end of a call with fixes on together with the in-the-air rows), and
\* the endpoints fixes are tried on.
GroundedEndpoints ==
    {e \in EntryEndpoints(df_trk_departed) \cup ExitEndpoints(df_trk_landed) :
        e.row.Altitude <= AltitudeThreshold}
InTheAirEndpoints ==
    EntryEndpoints(df_trk_in_the_air_at_first) \cup ExitEndpoints(df_trk_in_the_air_at_last)

\* An endpoint is unassigned or carries the name of an airport or fix whose
\* planar distance to its row is at most r.
UnsetOrWithin(e, r) ==
    \/ e.point = NaN
    \/ \E l \in AirportLocations \cup FixLocations :
         l.name = e.point /\ PlanarWithin(e.row, l.lat, l.lon, r)

\* C1: after assign(r), whichever calls came before it, every endpoint row
\* is unassigned or carries the name of an airport or fix whose planar
\* distance to the row is at most r.
C1_AssignedWithinRadius ==
    pc = "assigned" => \A e \in AllEndpoints : UnsetOrWithin(e, radius_km)

\* In a step of assign(r), every row of the table that had no point before
\* the step is unassigned or within r of its location after it.
AssignsWithin(before, after, point, dist) ==
    \A i \in 1..Len(before.rows) :
        (i <= Len(after.rows) /\ before.rows[i][point] = NaN) =>
            UnsetOrWithin(Endpoint(after.rows[i], point, dist), radius_km)

AllAssignWithin ==
    /\ AssignsWithin(df_trk_departed, df_trk_departed', "EntryPoint", "Distance_to_EntryPoint")
    /\ AssignsWithin(df_trk_landed, df_trk_landed', "ExitPoint", "Distance_to_ExitPoint")
    /\ AssignsWithin(df_trk_in_the_air_at_first, df_trk_in_the_air_at_first',
                     "EntryPoint", "Distance_to_EntryPoint")
    /\ AssignsWithin(df_trk_in_the_air_at_last, df_trk_in_the_air_at_last',
                     "ExitPoint", "Distance_to_ExitPoint")

\* C1, amended: during and after the first assign(r) on preprocessed tables
\* every endpoint row is unassigned or carries the name of an airport or fix
\* whose planar distance to the row is at most r; and in every assign(r),
\* the first or a later one, every endpoint the call gives a point to gets
\* the name of an airport or fix at most r away.  (An endpoint that had its
\* point before the call keeps it, at whatever distance.)
C1_AssignedByCallWithinRadius ==
    /\ []((calls = 1 /\ pc \in AssignPcs \cup {"assigned"}) =>
            \A e \in AllEndpoints : UnsetOrWithin(e, radius_km))
    /\ [][(pc \in AssignPcs) => AllAssignWithin]_vars

\* A second assign has ended: one endpoint holds a point from the first call
\* that is farther away than the radius of the second, and another one
\* holds a point within that radius.
C1_Witness ==
    /\ pc = "assigned" /\ calls = 2
    /\ \E e \in AllEndpoints : e.point # NaN /\ ~UnsetOrWithin(e, radius_km)
    /\ \E e \in AllEndpoints : e.point # NaN /\ e.dist > 0 /\ UnsetOrWithin(e, radius_km)

\* C2: priority is positional: when the loops of the first assign have run,
\* every assigned endpoint holds the first location, in the order of the
\* priority list, that is within radius of it, also when a later one is
\* closer.
C2_FirstInPriorityWins ==
    (calls = 1 /\ pc \in {"assign_merge", "assigned"}) =>
        /\ \A e \in GroundedEndpoints :
             e.point # NaN =>
               /\ InReach(AirportPriority, e.row, radius_km) # {}
               /\ e.point = FirstInReach(AirportPriority, e.row, radius_km)
        /\ \A e \in InTheAirEndpoints :
             e.point # NaN =>
               /\ InReach(FixPriority, e.row, radius_km) # {}
               /\ e.point = FirstInReach(FixPriority, e.row, radius_km)

\* An endpoint assigned to the first airport of the list although the second
\* one, also within radius, is strictly closer.
C2_Witness ==
    /\ pc = "assigned" /\ calls = 1
    /\ Len(AirportPriority) = 2
    /\ \E e \in GroundedEndpoints :
         /\ e.point = AirportPriority[1].name
         /\ PlanarWithin(e.row, AirportPriority[2].lat, AirportPriority[2].lon, radius_km)
         /\ e.dist > Distance(e.row, AirportPriority[2].lat, AirportPriority[2].lon)

\* A table keeps, at the same place, the point and the distance of every
\* row that has a point.
KeepsAssigned(before, after, point, dist) ==
    \A i \in 1..Len(before.rows) :
        before.rows[i][point] # NaN =>
            /\ i <= Len(after.rows)
            /\ after.rows[i][point] = before.rows[i][point]
            /\ after.rows[i][dist] = before.rows[i][dist]

AllKeepAssigned ==
    /\ KeepsAssigned(df_trk_departed, df_trk_departed', "EntryPoint", "Distance_to_EntryPoint")
    /\ KeepsAssigned(df_trk_landed, df_trk_landed', "ExitPoint", "Distance_to_ExitPoint")
    /\ KeepsAssigned(df_trk_in_the_air_at_first, df_trk_in_the_air_at_first',
                     "EntryPoint", "Distance_to_EntryPoint")
    /\ KeepsAssigned(df_trk_in_the_air_at_last, df_trk_in_the_air_at_last',
                     "ExitPoint", "Distance_to_ExitPoint")

\* C3: write-once within a call: no step of the loops over the airports and
\* over the fixes, nor the final merge, changes the point or the distance of
\* an endpoint that has a point.
C3_WriteOnce == [][(pc \in AssignPcs) => AllKeepAssigned]_vars

\* The airport loop about to try an airport that is within radius of, and
\* strictly closer to, an endpoint an earlier airport has claimed.
C3_Witness ==
    /\ pc = "assign_airports" /\ icao_i = 2
    /\ \E e \in GroundedEndpoints, l \in AirportLocations :
         /\ l.name = target_airports[icao_i]
         /\ e.point # NaN /\ e.point # l.name
         /\ PlanarWithin(e.row, l.lat, l.lon, radius_km)
         /\ Distance(e.row, l.lat, l.lon) < e.dist

\* C4: a second assign, with any radius, keeps the point and the distance of
\* every endpoint the first one has left assigned: no step of an assign call
\* that follows another one on the same tables changes them.
C4_SecondAssignKeeps ==
    [][(calls' >= 2 /\ (pc \in AssignPcs \/ pc' \in AssignPcs)) => AllKeepAssigned]_vars

\* A second assign has ended, with a radius below the distance at which the
\* first one assigned an endpoint.
C4_Witness ==
    /\ pc = "assigned" /\ calls = 2
    /\ \E e \in AllEndpoints : e.point # NaN /\ e.dist > radius_km * 1000

\* C5: after the first assign an endpoint has a point exactly if a location
\* the loop for its table tries is within radius of it: an endpoint out of
\* reach of all of them keeps its point and distance missing, and assign
\* never raises.
C5_AssignedIffInReach ==
    /\ pc # "raised"
    /\ (calls = 1 /\ pc = "assigned") =>
        /\ \A e \in GroundedEndpoints :
             /\ (e.point # NaN) <=> (InReach(AirportPriority, e.row, radius_km) # {})
             /\ (e.point = NaN) => (e.dist = NaNf)
        /\ \A e \in InTheAirEndpoints :
             /\ (e.point # NaN) <=> (InReach(FixPriority, e.row, radius_km) # {})
             /\ (e.point = NaN) => (e.dist = NaNf)

\* An assign that has ended with one grounded endpoint in reach of an
\* airport assigned and one out of reach of all of them left without point
\* and distance, which the result shows.
C5_Witness ==
    /\ pc = "assigned" /\ calls = 1
    /\ \E e \in GroundedEndpoints :
         e.point = NaN /\ e.dist = NaNf /\ InReach(AirportPriority, e.row, radius_km) = {}
    /\ \E e \in GroundedEndpoints : e.point # NaN
    /\ \E g \in RowsOf(df_guess) : g.EntryPoint = NaN /\ g.Distance_to_EntryPoint = NaNf

\* The places of the assigned rows of the four tables.
AssignedIn(t) ==
    {<<"departed", i>> : i \in {j \in 1..Len(t.departed.rows) : t.departed.rows[j].EntryPoint # NaN}}
    \cup {<<"landed", i>> : i \in {j \in 1..Len(t.landed.rows) : t.landed.rows[j].ExitPoint # NaN}}
    \cup {<<"first", i>> : i \in {j \in 1..Len(t.in_the_air_at_first.rows) :
                                    t.in_the_air_at_first.rows[j].EntryPoint # NaN}}
    \cup {<<"last", i>> : i \in {j \in 1..Len(t.in_the_air_at_last.rows) :
                                   t.in_the_air_at_last.rows[j].ExitPoint # NaN}}

\* A table with its points and distances cleared.
Cleared(t) ==
    [departed |-> InitEntry(t.departed), landed |-> InitExit(t.landed),
     in_the_air_at_first |-> InitEntry(t.in_the_air_at_first),
     in_the_air_at_last |-> InitExit(t.in_the_air_at_last)]

\* The endpoint tables are those of the stored samples: an assign of the
\* tables preprocess makes of df_all_trk leaves the rows the tables hold.
EndpointsOfSamples ==
    LET p == PreprocessTables(df_all_trk, is_to_guess_fixes, CurrentTables)
    IN  Cleared(CurrentTables) = Cleared(IF is_to_guess_fixes THEN ConcatInTheAir(p) ELSE p)

\* The tables assign(r) would have left on the preprocessed samples.
AssignedWith(r) ==
    AssignedIn(RunAssign(PreprocessTables(df_all_trk, is_to_guess_fixes, CurrentTables),
                         df_airport, df_fixes, is_to_guess_fixes, target_airports, r))

\* C6: monotonic radius: on the same preprocessed tables and gazetteer a
\* smaller radius assigns a subset of the endpoints a larger one assigns:
\* the endpoints the first assign(radius_km) has assigned include those of
\* every smaller radius and are included in those of every larger one.
C6_MonotonicRadius ==
    (calls = 1 /\ pc = "assigned" /\ EndpointsOfSamples) =>
        \A r \in Radii :
            /\ r <= radius_km => AssignedWith(r) \subseteq AssignedIn(CurrentTables)
            /\ r >= radius_km => AssignedIn(CurrentTables) \subseteq AssignedWith(r)

\* An assign that has assigned strictly more endpoints than a smaller radius
\* would have, and strictly fewer than a larger one.
C6_Witness ==
    /\ pc = "assigned" /\ calls = 1 /\ EndpointsOfSamples
    /\ \E r \in Radii : r < radius_km /\ AssignedWith(r) # AssignedIn(CurrentTables)
    /\ \E r \in Radii : r > radius_km /\ AssignedWith(r) # AssignedIn(CurrentTables)

(***************************************************************************)
(* Properties of the two phases and of the assembled result.               *)
(***************************************************************************)
\* An assign call has ended with a plain return on preprocessed samples.
AssignReturned ==
    /\ returned = Returned("assign")
    /\ pc \in {"preprocessed", "assigned"}
    /\ ~empty(df_all_trk)

FixNames == {l.name : l \in FixLocations}
AirportNames == {l.name : l \in AirportLocations}

\* The rows of the result for the flight of an endpoint row.
GuessRowsOf(row) ==
    {g \in RowsOf(df_guess) : g.Callsign = row.Callsign /\ g.date = row.date}

\* C11: with a fix gazetteer every assign call on preprocessed samples runs
\* the fix phase: when it has returned, every in-the-air endpoint within the
\* radius of some fix carries a fix and is in the result with it, also in a
\* batch without a grounded flight.  Without a fix gazetteer no endpoint
\* carries a fix.
C11_FixPhaseAlwaysRuns ==
    AssignReturned =>
        IF is_to_guess_fixes
        THEN /\ \A e \in EntryEndpoints(df_trk_in_the_air_at_first) :
                    InReach(FixPriority, e.row, radius_km) # {} =>
                        /\ e.point \in FixNames
                        /\ \E g \in GuessRowsOf(e.row) : g.EntryPoint = e.point
             /\ \A e \in ExitEndpoints(df_trk_in_the_air_at_last) :
                    InReach(FixPriority, e.row, radius_km) # {} =>
                        /\ e.point \in FixNames
                        /\ \E g \in GuessRowsOf(e.row) : g.ExitPoint = e.point
        ELSE \A e \in AllEndpoints : e.point \notin FixNames

\* The rows of a table for one flight, in the table's order.
RowsFor(df, k) == SelectSeq(df.rows, LAMBDA row : row.Callsign = k[1] /\ row.date = k[2])

FlightsIn(df) == {<<row.Callsign, row.date>> : row \in RowsOf(df)}

\* C12: the outer join is complete: after assign every flight of departed or
\* landed is in the result exactly once, with the entry fields of its
\* departed row (missing if it has none) and the exit fields of its landed
\* row (missing if it has none), and the result holds no other flight.
C12_OuterJoinComplete ==
    pc = "assigned" =>
        /\ FlightsIn(df_guess) = FlightsIn(df_trk_departed) \cup FlightsIn(df_trk_landed)
        /\ \A k \in FlightsIn(df_guess) :
             LET gs == RowsFor(df_guess, k)
                 ds == RowsFor(df_trk_departed, k)
                 ls == RowsFor(df_trk_landed, k)
             IN  /\ Len(gs) = 1
                 /\ IF ds = <<>>
                    THEN gs[1].EntryPoint = NaN /\ gs[1].Distance_to_EntryPoint = NaNf
                    ELSE /\ gs[1].EntryPoint = ds[1].EntryPoint
                         /\ gs[1].Distance_to_EntryPoint = ds[1].Distance_to_EntryPoint
                 /\ IF ls = <<>>
                    THEN gs[1].ExitPoint = NaN /\ gs[1].Distance_to_ExitPoint = NaNf
                    ELSE /\ gs[1].ExitPoint = ls[1].ExitPoint
                         /\ gs[1].Distance_to_ExitPoint = ls[1].Distance_to_ExitPoint

\* C13: samples without a date column are no error: when an assign on them
\* has ended it has returned, and the result holds the flights of the entry
\* and exit tables, joined on Callsign.
C13_DatelessAssignSucceeds ==
    (~empty(df_all_trk) /\ ~HasColumn(df_all_trk, "date")
        /\ returned.op = "assign" /\ returned.outcome # "running") =>
        /\ returned.outcome = "returned"
        /\ {row.Callsign : row \in RowsOf(df_guess)}
             = {row.Callsign : row \in RowsOf(df_trk_departed) \cup RowsOf(df_trk_landed)}

\* C14: an endpoint is assigned from one gazetteer only: a grounded endpoint
\* (a first or last row at or below the threshold altitude) never carries
\* the name of a fix, and an in-the-air endpoint (a first or last row above
\* it) never carries the name of an airport, in whichever table the row is.
C14_OneGazetteerPerEndpoint ==
    \A e \in AllEndpoints :
        /\ e.row.Altitude <= AltitudeThreshold => e.point \notin FixNames
        /\ e.row.Altitude > AltitudeThreshold => e.point \notin AirportNames

\* The explicit lists a caller passes as target_airports.
ExplicitTargets == {t[1] : t \in TargetAirports \ {None}}

\* C15: after construction, and from then on, the priority list is the
\* explicit list of the caller or, without one, the names of all airports in
\* the order of the airport file; nothing else is in it.
C15_PriorityListAsSupplied ==
    \/ target_airports \in ExplicitTargets
    \/ target_airports = Names(df_airport.rows, "ICAO")

\* A guesser that holds no samples and no tables made of samples.
HoldsNothing ==
    /\ empty(df_all_trk)
    /\ empty(df_trk_departed) /\ empty(df_trk_landed) /\ empty(df_guess)

\* C16: empty input is no error: on a guesser that holds no samples every
\* call of preprocess, assign and get_guess_df returns, departed, landed and
\* the result stay empty, and get_guess_df returns an empty table.
C16_EmptyInputIsNoError ==
    [][(HoldsNothing /\ returned'.op \in {"preprocess", "assign", "get_guess_df"}) =>
          /\ returned'.outcome = "returned"
          /\ empty(df_trk_departed') /\ empty(df_trk_landed') /\ empty(df_guess')
          /\ returned'.op = "get_guess_df" => empty(returned'.value[1])]_vars

\* assign has returned on a guesser without samples.
C16_Witness ==
    /\ HoldsNothing
    /\ returned = Returned("assign")

\* C17: a get_guess_df call after an assign that returned leaves the stored
\* result as it is and returns its rows under exactly the columns Callsign,
\* EntryPoint, Distance_to_EntryPoint, ExitPoint, Distance_to_ExitPoint,
\* with the date column in front when include_date is requested and only
\* then.
C17_GuessDfColumns ==
    [][(pc = "assigned" /\ returned'.op = "get_guess_df") =>
          LET res == returned'.value[1]
              include_date == returned'.args[1]
          IN  /\ df_guess' = df_guess
              /\ res.columns = IF include_date THEN <<"date">> \o ReturnColumns
                               ELSE ReturnColumns
              /\ Len(res.rows) = Len(df_guess.rows)
              /\ \A i \in 1..Len(res.rows) :
                    /\ DOMAIN res.rows[i] = Range(res.columns)
                    /\ res.rows[i] = Project(df_guess.rows[i], res.columns)]_vars

\* get_guess_df has returned a result of two flights without the date.
C17_Witness ==
    /\ pc = "assigned"
    /\ returned.op = "get_guess_df" /\ returned.args = Some(FALSE)
    /\ Len(returned.value[1].rows) = 2
    /\ HasColumn(df_guess, "date") /\ ~HasColumn(returned.value[1], "date")

(***************************************************************************)
(* Properties of the construction.                                         *)
(***************************************************************************)
\* The value of the digit at place i of a DMS string.
DigitAt(x, i) == CHOOSE d \in 0..9 : Digits[d + 1] = x[i]

\* The seconds of arc a DMS string with w degree digits stands for.
ArcSeconds(x, w) ==
    (IF w = 3 THEN 100 * DigitAt(x, 1) + 10 * DigitAt(x, 2) + DigitAt(x, 3)
     ELSE 10 * DigitAt(x, 1) + DigitAt(x, 2)) * 3600
    + (10 * DigitAt(x, w + 1) + DigitAt(x, w + 2)) * 60
    + (10 * DigitAt(x, w + 3) + DigitAt(x, w + 4))

\* v (in 0.00001 degree) is what n seconds of arc round to: the distance of
\* v / 100000 to n / 3600 is at most 0.000005, written without fractions.
IsRounded5(v, n) == 2 * (9 * v - 250 * n) <= 9 /\ 2 * (250 * n - 9 * v) <= 9

\* C18: the gazetteers load, and when they are loaded every row of the
\* airport file and of the fixes file has as its decimal latitude and
\* longitude the degrees (2 digits for a latitude, 3 for a longitude) +
\* minutes / 60 + seconds / 3600 of its DMS string, rounded to 5 decimal
\* places; 354030 gives 35.675 and 1394600 gives 139.76667.
C18_DmsToDecimal ==
    pc # "reading" =>
        /\ returned.outcome = "returned"
        /\ Len(df_airport.rows) = Len(returned.args[1])
        /\ is_to_guess_fixes => Len(df_fixes.rows) = Len(returned.args[2][1])
        /\ \A row \in RowsOf(df_airport) \cup RowsOf(df_fixes) :
            /\ IsRounded5(row.Latitude_decimal, ArcSeconds(row.Latitude, 2))
            /\ IsRounded5(row.Longitude_decimal, ArcSeconds(row.Longitude, 3))
            /\ row.Latitude = <<"3", "5", "4", "0", "3", "0">> => row.Latitude_decimal = 3567500
            /\ row.Longitude = <<"1", "3", "9", "4", "6", "0", "0">> =>
                   row.Longitude_decimal = 13976667

(***************************************************************************)
(* Properties of the loading of sample files.                              *)
(***************************************************************************)
\* C19: after load_trks_from_paths on a fresh guesser the columns of the
\* stored table of samples are exactly time, Callsign, Latitude, Longitude,
\* Altitude, Type, in this order.
C19_LoadedColumns ==
    (steps = 1 /\ returned = Returned("load_trks_from_paths") /\ df_all_trk.rows # <<>>) =>
        df_all_trk.columns = CsvColumns

(***************************************************************************)
(* Properties of repeated assign calls.                                    *)
(***************************************************************************)
\* C20: with a fix gazetteer, after any number of assign calls on the
\* preprocessed samples the result holds one row per flight (Callsign,
\* date), and departed and landed hold the row of a flight at most once.
C20_RepeatedAssignKeepsOneRow ==
    (pc = "assigned" /\ is_to_guess_fixes) =>
        \A k \in FlightsIn(df_guess) :
            /\ Len(RowsFor(df_guess, k)) = 1
            /\ Len(RowsFor(df_trk_departed, k)) <= 1
            /\ Len(RowsFor(df_trk_landed, k)) <= 1

(***************************************************************************)
(* Properties of to_csv.                                                   *)
(***************************************************************************)
\* C21: writing the result reads the state only: a to_csv call, whatever
\* include_trks and include_date are, leaves the table of samples
\* df_all_trk and the result df_guess as they were.
C21_ToCsvReadsOnly ==
    [][returned'.op = "to_csv" => (df_all_trk' = df_all_trk /\ df_guess' = df_guess)]_vars

(***************************************************************************)
(* Properties of the script airport_guess.py.                              *)
(***************************************************************************)
\* A row of the script has its airport and its distance together: with an
\* airport the distance to it, at most 10 km, and without one no distance.
LegacyTogether(row, point) ==
    IF row[point] = NaN THEN row.Distance_to_Airport = NaNf
    ELSE /\ row.Distance_to_Airport # NaNf
         /\ row.Distance_to_Airport <= LegacyRadius * 1000
         /\ \E l \in AirportLocations :
              /\ l.name = row[point]
              /\ row.Distance_to_Airport = Distance(row, l.lat, l.lon)

\* C22: when the loop of the script over target_airports is over, every row
\* with a DEP_Airport (an ARR_Airport) has in Distance_to_Airport its
\* distance to that airport, at most 10 km, and every row without one has
\* no distance.
C22_LegacyDistanceWithAirport ==
    pc \in {"legacy_merge", "legacy_done"} =>
        /\ \A row \in RowsOf(df_trk_departed) : LegacyTogether(row, "DEP_Airport")
        /\ \A row \in RowsOf(df_trk_landed) : LegacyTogether(row, "ARR_Airport")

=============================================================================
